---- MODULE Spec2Model ----
(***************************************************************************)
(* Job orchestration pipeline of AutoDocs: one Job, its JobItems, the      *)
(* Celery tasks process_job, render_document, render_combined_document and *)
(* create_bundle (src/server/workers/tasks.py) and the API handlers        *)
(* cancel_job and retry_failed_items (src/app/api/jobs.py).                *)
(*                                                                         *)
(* Around the job: the DataSource it runs over, with upload_datasource,    *)
(* reprocess_datasource (src/app/api/datasources.py) and the task          *)
(* parse_datasource; create_job; the periodic task cleanup_expired_outputs;*)
(* and the column type inference of src/server/services/file_parser.py.    *)
(*                                                                         *)
(* Every task execution has its own database session.  A commit is one     *)
(* step; the reads a session caches between two commits are kept in the    *)
(* task's record (seenFailed), because the code writes them back later.    *)
(***************************************************************************)
EXTENDS Integers, Sequences, FiniteSets, TLC

\* ---------------------------------------------------------------- bounds
MaxRows == 2        \* rows of the data source the job runs over
MaxRedeliver == 1   \* at-least-once redeliveries of a render task
MaxFailures == 4    \* render attempts that raise, over all items
MaxOutputs == 3     \* Output records in the table the Reaper sweeps
MaxParses == 2      \* parse_datasource messages sent for the DataSource
MaxColumn == 11     \* values of a column handed to infer_column_type

\* ------------------------------------------------------ program constants
MaxRetries == 3     \* @celery_app.task(bind=True, max_retries=3)
RetryDelay == 60    \* countdown=60 * (self.request.retries + 1)
SampleSize == 10    \* non_null.head(10)

VARIABLES
    generation_mode,  \* Job.generation_mode
    nRows,            \* number of DataSourceRow records of the data source
    status,           \* Job.status
    total_items,      \* Job.total_items
    completed_items,  \* Job.completed_items
    failed_items,     \* Job.failed_items
    error_message,    \* Job.error_message
    pj,               \* position of the process_job task
    items,            \* the job's JobItems, in creation order
    tasks,            \* the render task of each JobItem
    bundleEnq,        \* create_bundle messages sent so far
    bundleRun,        \* create_bundle executions so far
    outputs,          \* the job's Output records, in creation order
    redelivered,      \* redeliveries so far
    cancel_pc,        \* position of a cancel_job request
    datasource,       \* the DataSource record
    datasource_rows,  \* its DataSourceRow records, by row_index
    file,             \* the uploaded file
    parse,            \* the parse_datasource task
    output_rows,      \* the outputs table and the storage, as swept
    sweep,            \* the cleanup_expired_outputs task
    column,           \* a column handed to infer_column_type
    col_type          \* the type inferred for it

vars == <<generation_mode, nRows, status, total_items, completed_items,
          failed_items, error_message, pj, items, tasks, bundleEnq,
          bundleRun, outputs, redelivered, cancel_pc, datasource,
          datasource_rows, file, parse, output_rows, sweep, column,
          col_type>>

jobVars == <<status, total_items, completed_items, failed_items,
             error_message>>
envVars == <<redelivered, cancel_pc>>
cfgVars == <<generation_mode, nRows>>
bundleVars == <<bundleEnq, bundleRun, outputs>>
ingestVars == <<datasource, datasource_rows, file, parse>>
reaperVars == <<output_rows, sweep>>
inferVars == <<column, col_type>>
restVars == <<ingestVars, reaperVars, inferVars>>
allJobVars == <<jobVars, cfgVars, envVars, bundleVars, pj, items, tasks>>

\* ---------------------------------------------------------------- types
JobStatus == {"PENDING", "PROCESSING", "COMPLETED", "FAILED", "CANCELLED"}

JobItemStatus == {"PENDING", "PROCESSING", "COMPLETED", "FAILED", "SKIPPED"}

GenerationMode == {"per_row", "per_datasource"}

\* A JobItem as process_job creates it.
NewJobItem(idx) ==
    [row_index |-> idx, status |-> "PENDING", output_url |-> "none",
     error_message |-> "none", retry_count |-> 0]

\* A render task message as .delay() sends it.
NewTask ==
    [pc |-> "queued", retries |-> 0, countdown |-> 0, seenFailed |-> 0,
     rerun |-> FALSE]

\* The place in tasks of an item no render task was enqueued for.
UnsentTask == [NewTask EXCEPT !.pc = "unsent"]

ItemIds == 1..Len(items)

DataSourceStatus == {"PENDING", "PROCESSING", "READY", "FAILED"}

\* No DataSource record yet.
NoDataSource ==
    [status |-> "absent", error_message |-> "none", row_count |-> 0,
     schema_json |-> [inferred |-> FALSE, total_rows |-> 0]]

\* parse_file on a file: the rows of the DataFrame, in file order.
ParsedRows(f) == [k \in 1..f.rows |-> k]

\* infer_schema: "total_rows": int(len(df))
ParsedSchema(f) == [inferred |-> TRUE, total_rows |-> f.rows]

\* DataSourceRow(row_index=idx, row_data=row_data) for idx, row_data in
\* enumerate(rows)
StoredRows(rows) ==
    [k \in DOMAIN rows |-> [row_index |-> k - 1, row_data |-> rows[k]]]

\* A DataSource after a successful parse of f.
ReadyDataSource(f) ==
    [status |-> "READY", error_message |-> "none",
     row_count |-> Len(ParsedRows(f)), schema_json |-> ParsedSchema(f)]

\* No parse_datasource message.
NoParse == [pc |-> "none", retries |-> 0, countdown |-> 0, sent |-> 0]

\* The Reaper at rest.
NoSweep == [pc |-> "idle", selected |-> {}, deleted |-> {}]

\* Nothing to sweep, no column to infer.
ReaperIdle == output_rows = << >> /\ sweep = NoSweep

InferIdle ==
    column = [dtype |-> "object", values |-> << >>] /\ col_type = "none"

\* ------------------------------------------------------------ create_job
\* The state right after create_job: the Job row is committed with
\* total_items = datasource.row_count and process_job is enqueued.  A
\* per_datasource job runs over a data source with at least one row: its
\* single JobItem references rows[0].
Init ==
    /\ generation_mode \in GenerationMode
    /\ nRows \in 0..MaxRows
    /\ generation_mode = "per_datasource" => nRows >= 1
    /\ status = "PENDING"
    /\ total_items = nRows
    /\ completed_items = 0
    /\ failed_items = 0
    /\ error_message = "none"
    /\ pj = "queued"
    /\ items = << >>
    /\ tasks = << >>
    /\ bundleEnq = 0
    /\ bundleRun = 0
    /\ outputs = << >>
    /\ redelivered = 0
    /\ cancel_pc = "idle"
    /\ file = [rows |-> nRows, malformed |-> FALSE]
    /\ datasource = ReadyDataSource(file)
    /\ datasource_rows = StoredRows(ParsedRows(file))
    /\ parse = NoParse
    /\ ReaperIdle
    /\ InferIdle

\* ----------------------------------------------------------- process_job
\* job.status = PROCESSING; commit
ProcessJobStart ==
    /\ pj = "queued"
    /\ pj' = "started"
    /\ status' = "PROCESSING"
    /\ UNCHANGED <<total_items, completed_items, failed_items,
                   error_message, items, tasks, bundleVars, envVars,
                   cfgVars, restVars>>

\* The JobItems process_job adds for the job's generation mode.
CreatedItems ==
    IF generation_mode = "per_datasource"
    THEN << NewJobItem(0) >>
    ELSE [k \in DOMAIN datasource_rows |->
            NewJobItem(datasource_rows[k].row_index)]

\* The value process_job gives total_items.
\* total_items left at the row count create_job stored
DispatchTotalRowCount == nRows

DispatchTotal ==
    IF generation_mode = "per_datasource" THEN 1 ELSE Len(datasource_rows)

\* db.add(job_item) ...; job.total_items = ...; commit
ProcessJobCreateItems ==
    /\ pj = "started"
    /\ pj' = "committed"
    /\ items' = items \o CreatedItems
    /\ total_items' = DispatchTotal
    /\ UNCHANGED <<status, completed_items, failed_items, error_message,
                   tasks, bundleVars, envVars, cfgVars, restVars>>

\* The render tasks process_job enqueues: per_row, render_document for every
\* JobItem the query on the job's id returns; per_datasource, one
\* render_combined_document for the JobItem this execution created.
DispatchedTasks ==
    IF generation_mode = "per_datasource"
    THEN [k \in 1..Len(items) |->
            IF k = Len(items) THEN NewTask ELSE UnsentTask]
    ELSE [k \in 1..Len(items) |-> NewTask]

\* render_document.delay(...) for every item of the job, or one
\* render_combined_document.delay(...)
ProcessJobDispatch ==
    /\ pj = "committed"
    /\ pj' = "done"
    /\ tasks' = DispatchedTasks
    /\ UNCHANGED <<jobVars, items, bundleVars, envVars, cfgVars, restVars>>

\* ------------------------------------------------- shared task machinery
\* self.retry(): a new attempt is scheduled while retries < max_retries,
\* otherwise the exception is raised and the task ends.
AfterRetry(t) ==
    IF t.retries < MaxRetries
    THEN [t EXCEPT !.pc = "queued", !.retries = @ + 1,
                   !.countdown = RetryDelay * (t.retries + 1),
                   !.seenFailed = 0]
    ELSE [t EXCEPT !.pc = "dead", !.seenFailed = 0]

\* The failed attempts so far: every one added 1 to its item's retry_count.
RECURSIVE SumRetryCount(_)
SumRetryCount(n) ==
    IF n = 0 THEN 0 ELSE items[n].retry_count + SumRetryCount(n - 1)

\* Whether one more attempt may raise.
MayFail == SumRetryCount(Len(items)) < MaxFailures

\* job.failed_items += 1 on the Job object the session holds
FailedAfterFailure(seen) == seen + 1

\* What a render attempt can raise: render_template raises ValueError for
\* a TemplateSyntaxError or an UndefinedError ("template"); the conversion
\* and the upload raise whatever they fail with ("transient").
RenderErrors == {"template", "transient"}

UploadErrors == {"transient"}

\* The except branch's writes to the JobItem; e stands for str(e).
FailedItem(it, e) ==
    [it EXCEPT !.status = "FAILED", !.error_message = e,
               !.retry_count = @ + 1]

\* An item failure that fails the job, as render_combined_document's does.
StatusFailedOnItemFailure(s) == "FAILED"

\* The except branch of render_document assigns the job's failed_items
\* only: the job keeps its status.
StatusAfterItemFailure(s) == s

\* The success branch's writes to the JobItem.
CompletedItem(it) ==
    [it EXCEPT !.status = "COMPLETED", !.output_url = "url"]

\* job_item.status = PROCESSING; commit
TaskStart(i) ==
    /\ i \in DOMAIN tasks
    /\ tasks[i].pc = "queued"
    /\ tasks' = [tasks EXCEPT ![i].pc = "start"]
    /\ items' = [items EXCEPT ![i].status = "PROCESSING"]
    /\ UNCHANGED <<jobVars, pj, bundleVars, envVars, cfgVars, restVars>>

\* job = db.query(Job).get(job_item.job_id) before the upload: the session
\* now holds the Job row as it was read here.
TaskLoadJob(i) ==
    /\ i \in DOMAIN tasks
    /\ tasks[i].pc = "start"
    /\ tasks' = [tasks EXCEPT ![i].pc = "loaded",
                              ![i].seenFailed = failed_items]
    /\ UNCHANGED <<jobVars, pj, items, bundleVars, envVars, cfgVars, restVars>>

\* ------------------------------------------------------- render_document
RenderDocumentStart(i) ==
    /\ generation_mode = "per_row"
    /\ TaskStart(i)

RenderDocumentLoadJob(i) ==
    /\ generation_mode = "per_row"
    /\ TaskLoadJob(i)

\* Rendering or conversion raised before the Job was read: the except
\* branch reads the Job and commits failed_items + 1 with the item.
RenderDocumentFailEarly(i) ==
    /\ MayFail
    /\ generation_mode = "per_row"
    /\ i \in DOMAIN tasks
    /\ tasks[i].pc = "start"
    /\ \E e \in RenderErrors :
          items' = [items EXCEPT ![i] = FailedItem(@, e)]
    /\ failed_items' = FailedAfterFailure(failed_items)
    /\ status' = StatusAfterItemFailure(status)
    /\ tasks' = [tasks EXCEPT ![i] = AfterRetry(@)]
    /\ UNCHANGED <<total_items, completed_items, error_message, pj,
                   bundleVars, envVars, cfgVars, restVars>>

\* The upload raised: db.query(Job).get() returns the Job the session
\* already holds, so failed_items + 1 is computed from the earlier read.
RenderDocumentFailLate(i) ==
    /\ MayFail
    /\ generation_mode = "per_row"
    /\ i \in DOMAIN tasks
    /\ tasks[i].pc = "loaded"
    /\ \E e \in UploadErrors :
          items' = [items EXCEPT ![i] = FailedItem(@, e)]
    /\ failed_items' = FailedAfterFailure(tasks[i].seenFailed)
    /\ status' = StatusAfterItemFailure(status)
    /\ tasks' = [tasks EXCEPT ![i] = AfterRetry(@)]
    /\ UNCHANGED <<total_items, completed_items, error_message, pj,
                   bundleVars, envVars, cfgVars, restVars>>

\* job_item.status = COMPLETED; job_item.output_url = ...; commit
RenderDocumentItemDone(i) ==
    /\ generation_mode = "per_row"
    /\ i \in DOMAIN tasks
    /\ tasks[i].pc = "loaded"
    /\ items' = [items EXCEPT ![i] = CompletedItem(@)]
    /\ tasks' = [tasks EXCEPT ![i].pc = "itemdone", ![i].seenFailed = 0]
    /\ UNCHANGED <<jobVars, pj, bundleVars, envVars, cfgVars, restVars>>

\* A variant that writes the constant render_combined_document writes
\* (job.completed_items = 1) instead of incrementing in the database.
CompletedSetToOne(c) == 1

\* UPDATE jobs SET completed_items = completed_items + 1
CompletedAfterSuccess(c) == c + 1

RenderDocumentIncrement(i) ==
    /\ generation_mode = "per_row"
    /\ i \in DOMAIN tasks
    /\ tasks[i].pc = "itemdone"
    /\ completed_items' = CompletedAfterSuccess(completed_items)
    /\ tasks' = [tasks EXCEPT ![i].pc = "incdone"]
    /\ UNCHANGED <<status, total_items, failed_items, error_message, pj,
                   items, bundleVars, envVars, cfgVars, restVars>>

\* total_processed >= job.total_items
JobIsComplete == completed_items + failed_items >= total_items

\* Re-fetch the job; if complete: job.status = COMPLETED; commit;
\* create_bundle.delay(job.id)
RenderDocumentCheck(i) ==
    /\ generation_mode = "per_row"
    /\ i \in DOMAIN tasks
    /\ tasks[i].pc = "incdone"
    /\ tasks' = [tasks EXCEPT ![i].pc = "done"]
    /\ IF JobIsComplete
       THEN /\ status' = "COMPLETED"
            /\ bundleEnq' = bundleEnq + 1
       ELSE UNCHANGED <<status, bundleEnq>>
    /\ UNCHANGED <<total_items, completed_items, failed_items,
                   error_message, pj, items, bundleRun, outputs, envVars,
                   cfgVars, restVars>>

\* ---------------------------------------------- render_combined_document
RenderCombinedStart(i) ==
    /\ generation_mode = "per_datasource"
    /\ TaskStart(i)

RenderCombinedLoadJob(i) ==
    /\ generation_mode = "per_datasource"
    /\ TaskLoadJob(i)

\* The except branch: item FAILED, job.failed_items += 1,
\* job.status = FAILED; commit; self.retry()
RenderCombinedFailEarly(i) ==
    /\ MayFail
    /\ generation_mode = "per_datasource"
    /\ i \in DOMAIN tasks
    /\ tasks[i].pc = "start"
    /\ \E e \in RenderErrors :
          /\ items' = [items EXCEPT ![i] = FailedItem(@, e)]
          /\ error_message' = e
    /\ failed_items' = FailedAfterFailure(failed_items)
    /\ status' = "FAILED"
    /\ tasks' = [tasks EXCEPT ![i] = AfterRetry(@)]
    /\ UNCHANGED <<total_items, completed_items, pj,
                   bundleVars, envVars, cfgVars, restVars>>

RenderCombinedFailLate(i) ==
    /\ MayFail
    /\ generation_mode = "per_datasource"
    /\ i \in DOMAIN tasks
    /\ tasks[i].pc = "loaded"
    /\ \E e \in UploadErrors :
          /\ items' = [items EXCEPT ![i] = FailedItem(@, e)]
          /\ error_message' = e
    /\ failed_items' = FailedAfterFailure(tasks[i].seenFailed)
    /\ status' = "FAILED"
    /\ tasks' = [tasks EXCEPT ![i] = AfterRetry(@)]
    /\ UNCHANGED <<total_items, completed_items, pj,
                   bundleVars, envVars, cfgVars, restVars>>

\* item COMPLETED; job.completed_items = 1; job.status = COMPLETED; commit
RenderCombinedItemDone(i) ==
    /\ generation_mode = "per_datasource"
    /\ i \in DOMAIN tasks
    /\ tasks[i].pc = "loaded"
    /\ items' = [items EXCEPT ![i] = CompletedItem(@)]
    /\ completed_items' = 1
    /\ status' = "COMPLETED"
    /\ tasks' = [tasks EXCEPT ![i].pc = "itemdone", ![i].seenFailed = 0]
    /\ UNCHANGED <<total_items, failed_items, error_message, pj,
                   bundleVars, envVars, cfgVars, restVars>>

\* db.add(Output(type=single, ...)); commit
RenderCombinedOutput(i) ==
    /\ generation_mode = "per_datasource"
    /\ i \in DOMAIN tasks
    /\ tasks[i].pc = "itemdone"
    /\ outputs' = Append(outputs, [type |-> "single", entries |-> <<>>])
    /\ tasks' = [tasks EXCEPT ![i].pc = "done"]
    /\ UNCHANGED <<jobVars, pj, items, bundleEnq, bundleRun,
                   envVars, cfgVars, restVars>>

\* --------------------------------------------------------- create_bundle
\* The items create_bundle selects: JobItem.status == COMPLETED
CompletedIds == {k \in ItemIds : items[k].status = "COMPLETED"}

\* The decimal digits of n, most significant first.
RECURSIVE Digits(_)
Digits(n) == IF n < 10 THEN <<n>> ELSE Append(Digits(n \div 10), n % 10)

\* Format specification 0{w}d: zeros on the left up to width w.
RECURSIVE ZeroPad(_, _)
ZeroPad(ds, w) == IF Len(ds) < w THEN ZeroPad(<<0>> \o ds, w) ELSE ds

\* f"document_{item.row_index + 1:04d}.pdf": the digits between the fixed
\* prefix and suffix.
BundleFilename(row_index) == ZeroPad(Digits(row_index + 1), 4)

\* The orders in which a query without ORDER BY can return the rows S.
QueryOrders(S) ==
    {q \in [1..Cardinality(S) -> S] :
        \A a, b \in 1..Cardinality(S) : a # b => q[a] # q[b]}

\* zf.writestr(filename, content) for every selected item, in the order
\* the query returned them
BundleEntries(q) ==
    [j \in DOMAIN q |->
        [name |-> BundleFilename(items[q[j]].row_index), item |-> q[j]]]

CreateBundle ==
    /\ bundleRun < bundleEnq
    /\ bundleRun' = bundleRun + 1
    /\ IF CompletedIds = {}
       THEN UNCHANGED outputs
       ELSE \E q \in QueryOrders(CompletedIds) :
              outputs' = Append(outputs,
                [type |-> "bundle", entries |-> BundleEntries(q)])
    /\ UNCHANGED <<jobVars, pj, items, tasks, bundleEnq, envVars, cfgVars, restVars>>

\* ------------------------------------------------- at-least-once delivery
\* task_acks_late: a task whose worker is lost before the acknowledgement
\* is delivered again, with the same retry number.
Redeliver(i) ==
    /\ redelivered < MaxRedeliver
    /\ i \in DOMAIN tasks
    /\ tasks[i].pc \in {"start", "loaded", "itemdone", "incdone", "done"}
    /\ tasks' = [tasks EXCEPT ![i].pc = "queued", ![i].seenFailed = 0,
                              ![i].rerun = (@ \/ tasks[i].pc = "done")]
    /\ redelivered' = redelivered + 1
    /\ UNCHANGED <<jobVars, pj, items, bundleVars, cancel_pc, cfgVars, restVars>>

\* The worker running process_job is lost before it enqueued a render task:
\* the message is delivered again and process_job runs from its first line,
\* on the database as the lost execution's commits left it.
RedeliverProcessJob ==
    /\ redelivered < MaxRedeliver
    /\ pj \in {"started", "committed"}
    /\ pj' = "queued"
    /\ redelivered' = redelivered + 1
    /\ UNCHANGED <<jobVars, items, tasks, bundleVars, cancel_pc, cfgVars, restVars>>

\* ------------------------------------------------------------ cancel_job
\* The handler selects the Job, checks the status it read and commits the
\* new status later, after further awaits: the check and the UPDATE are
\* two statements with no row lock between them.
\* job.status in [PENDING, PROCESSING], on the Job as read
CanCancel == status \in {"PENDING", "PROCESSING"}

\* select(Job); the check passes
CancelJobCheck ==
    /\ cancel_pc = "idle"
    /\ CanCancel
    /\ cancel_pc' = "accepted"
    /\ UNCHANGED <<jobVars, pj, items, tasks, bundleVars, redelivered,
                   cfgVars, restVars>>

\* select(Job); the check fails: HTTPException(400), nothing is written
CancelJobReject ==
    /\ cancel_pc = "idle"
    /\ ~CanCancel
    /\ UNCHANGED vars

\* job.status = CANCELLED; commit
CancelJobCommit ==
    /\ cancel_pc = "accepted"
    /\ cancel_pc' = "idle"
    /\ status' = "CANCELLED"
    /\ UNCHANGED <<total_items, completed_items, failed_items,
                   error_message, pj, items, tasks, bundleVars, redelivered,
                   cfgVars, restVars>>

CancelJob == CancelJobCheck \/ CancelJobReject \/ CancelJobCommit

\* ---------------------------------------------------- retry_failed_items
\* The UPDATE without its WHERE status = FAILED.
ResetEvery(it) == [it EXCEPT !.status = "PENDING", !.error_message = "none"]

\* UPDATE job_items SET status = PENDING, error_message = NULL
\*   WHERE status = FAILED
ResetFailed(it) ==
    IF it.status = "FAILED"
    THEN [it EXCEPT !.status = "PENDING", !.error_message = "none"]
    ELSE it

RetryFailedItems ==
    /\ items' = [k \in DOMAIN items |-> ResetFailed(items[k])]
    /\ status' = "PROCESSING"
    /\ failed_items' = 0
    /\ UNCHANGED <<total_items, completed_items, error_message, pj, tasks,
                   bundleVars, envVars, cfgVars, restVars>>

\* ------------------------------------------------------------ data source
\* The files a user uploads: well-formed with some rows, or one parse_file
\* raises on.
Files ==
    [rows : 0..MaxRows, malformed : {FALSE}]
        \cup {[rows |-> 0, malformed |-> TRUE]}

\* upload_datasource: the record is created and the file parsed inline; a
\* parse error makes it FAILED, nothing is enqueued.
UploadDatasource ==
    /\ datasource.status = "absent"
    /\ \E f \in Files :
          /\ file' = f
          /\ IF f.malformed
             THEN /\ datasource' = [NoDataSource EXCEPT
                                       !.status = "FAILED",
                                       !.error_message = "parse"]
                  /\ datasource_rows' = << >>
             ELSE /\ datasource' = ReadyDataSource(f)
                  /\ datasource_rows' = StoredRows(ParsedRows(f))
    /\ UNCHANGED <<allJobVars, parse, reaperVars, inferVars>>

\* reprocess_datasource: status = PENDING, error_message = None; commit.
\* The call of parse_datasource.delay is commented out.
ReprocessDatasource ==
    /\ datasource.status \in DataSourceStatus
    /\ datasource' = [datasource EXCEPT !.status = "PENDING",
                                        !.error_message = "none"]
    /\ UNCHANGED <<allJobVars, datasource_rows, file, parse, reaperVars,
                   inferVars>>

\* A parse_datasource message for the DataSource, sent by a caller of the
\* task: one at a time.
SendParseDatasource ==
    /\ datasource.status \in DataSourceStatus
    /\ parse.pc \in {"none", "done", "dead"}
    /\ parse.sent < MaxParses
    /\ parse' = [pc |-> "queued", retries |-> 0, countdown |-> 0,
                 sent |-> parse.sent + 1]
    /\ UNCHANGED <<allJobVars, datasource, datasource_rows, file,
                   reaperVars, inferVars>>

\* datasource.status = PROCESSING; commit
ParseStart ==
    /\ parse.pc = "queued"
    /\ parse' = [parse EXCEPT !.pc = "started"]
    /\ datasource' = [datasource EXCEPT !.status = "PROCESSING"]
    /\ UNCHANGED <<allJobVars, datasource_rows, file, reaperVars,
                   inferVars>>

\* The rows appended to, not replaced.
RowsKept(rows) == rows

\* db.query(DataSourceRow).filter(datasource_id == ...).delete()
RowsAfterDelete(rows) == << >>

\* download, parse_file, schema_json, row_count, delete of the old rows,
\* the new rows, status = READY; commit
ParseSucceed ==
    /\ parse.pc = "started"
    /\ ~file.malformed
    /\ parse' = [parse EXCEPT !.pc = "done"]
    /\ datasource' = [datasource EXCEPT
                         !.status = "READY",
                         !.row_count = Len(ParsedRows(file)),
                         !.schema_json = ParsedSchema(file)]
    /\ datasource_rows' =
          RowsAfterDelete(datasource_rows) \o StoredRows(ParsedRows(file))
    /\ UNCHANGED <<allJobVars, file, reaperVars, inferVars>>

\* What the try block of parse_datasource can raise before it has changed
\* anything: the download fails, or parse_file raises on a malformed file.
ParseErrors == IF file.malformed THEN {"parse"} ELSE {"download"}

\* except: status = FAILED, error_message = str(e); commit;
\* raise self.retry(exc=e, countdown=60 * (retries + 1))
ParseFail ==
    /\ parse.pc = "started"
    /\ \E e \in ParseErrors :
          datasource' = [datasource EXCEPT !.status = "FAILED",
                                           !.error_message = e]
    /\ parse' = IF parse.retries < MaxRetries
                THEN [parse EXCEPT
                        !.pc = "queued", !.retries = @ + 1,
                        !.countdown = RetryDelay * (parse.retries + 1)]
                ELSE [parse EXCEPT !.pc = "dead"]
    /\ UNCHANGED <<allJobVars, datasource_rows, file, reaperVars,
                   inferVars>>

ParseStep == ParseStart \/ ParseSucceed \/ ParseFail

IngestStep ==
    \/ UploadDatasource
    \/ ReprocessDatasource
    \/ SendParseDatasource
    \/ ParseStep

\* ------------------------------------------------------------ create_job
\* The request is accepted whatever the DataSource's status.
CanCreateJobAnyStatus == datasource.status \in DataSourceStatus

\* datasource.status == DataSourceStatus.READY
CanCreateJob == datasource.status = "READY"

\* create_job on the DataSource: the Job is committed with total_items =
\* datasource.row_count or 0, then process_job.delay.  A per_datasource job
\* is asked for over a data source with at least one row.
CreateJob ==
    /\ pj = "uncreated"
    /\ CanCreateJob
    /\ \E mode \in GenerationMode :
          /\ mode = "per_datasource" => Len(datasource_rows) >= 1
          /\ generation_mode' = mode
    /\ nRows' = Len(datasource_rows)
    /\ total_items' = datasource.row_count
    /\ status' = "PENDING"
    /\ pj' = "queued"
    /\ UNCHANGED <<completed_items, failed_items, error_message, items,
                   tasks, bundleVars, envVars, restVars>>

\* HTTPException(400): the data source is not ready
CreateJobReject ==
    /\ pj = "uncreated"
    /\ datasource.status \in DataSourceStatus
    /\ ~CanCreateJob
    /\ UNCHANGED vars

\* ------------------------------------------------------ infer_column_type
\* A column of the DataFrame: its dtype and its values.  A value of an
\* object column is null, a string dateutil parses, or another string.
ObjectValues == {"null", "date", "text"}

ObjectColumns ==
    UNION {[dtype : {"object"}, values : [1..n -> ObjectValues]] :
              n \in 0..MaxColumn}

TypedColumns ==
    [dtype : {"int64", "float64", "bool", "datetime64"},
     values : {<< >>, <<"null">>, <<"value">>, <<"value", "null">>}]

Columns == ObjectColumns \cup TypedColumns

\* series.dropna()
DropNa(values) == SelectSeq(values, LAMBDA v : v # "null")

\* .head(n)
HeadOf(values, n) ==
    SubSeq(values, 1, IF Len(values) < n THEN Len(values) ELSE n)

\* sum(1 for v in sample if is_date_string(v))
DateCount(sample) == Cardinality({k \in DOMAIN sample : sample[k] = "date"})

\* date_count > len(sample) * 0.8.  For the sample lengths 0..10 the double
\* len * 0.8 is the integer 4.0 or 8.0 exactly, or no integer: the
\* comparison is that of 10 * date_count with 8 * len.
MostlyDates(sample) == DateCount(sample) * 10 > Len(sample) * 8

\* pd.api.types.is_numeric_dtype: the bool dtype counts as numeric
IsNumericDtype(dtype) == dtype \in {"int64", "float64", "bool"}

infer_column_type(series) ==
    LET non_null == DropNa(series.values)
    IN IF Len(non_null) = 0 THEN "string"
       ELSE IF IsNumericDtype(series.dtype)
            THEN IF series.dtype = "int64" THEN "integer" ELSE "number"
       ELSE IF series.dtype = "datetime64" THEN "date"
       ELSE IF series.dtype = "bool" THEN "boolean"
       ELSE IF MostlyDates(HeadOf(non_null, SampleSize)) THEN "date"
       ELSE "string"

\* ----------------------------------------------- cleanup_expired_outputs
\* No Job, no DataSource: the state the Reaper and the inference are
\* looked at in.
NoJob ==
    /\ generation_mode = "per_row"
    /\ nRows = 0
    /\ status = "PENDING"
    /\ total_items = 0
    /\ completed_items = 0
    /\ failed_items = 0
    /\ error_message = "none"
    /\ pj = "uncreated"
    /\ items = << >>
    /\ tasks = << >>
    /\ bundleEnq = 0
    /\ bundleRun = 0
    /\ outputs = << >>
    /\ redelivered = 0
    /\ cancel_pc = "idle"

NoIngest ==
    /\ file = [rows |-> 0, malformed |-> FALSE]
    /\ datasource = NoDataSource
    /\ datasource_rows = << >>
    /\ parse = NoParse

\* Output.expires_at against utcnow(): NULL, earlier or later.
Expiry == {"none", "past", "future"}

\* An Output record with its file in the storage.
OutputRows ==
    [expires_at : Expiry, record : {TRUE}, artifact : {TRUE}]

InitReaper ==
    /\ NoJob
    /\ NoIngest
    /\ InferIdle
    /\ output_rows \in [1..MaxOutputs -> OutputRows]
    /\ sweep = NoSweep

\* Output.expires_at < datetime.utcnow(): NULL compares as not expired
Expired == {o \in DOMAIN output_rows :
               output_rows[o].record /\ output_rows[o].expires_at = "past"}

\* The clock passes an Output's expires_at.
ClockPasses(o) ==
    /\ output_rows[o].expires_at = "future"
    /\ output_rows' = [output_rows EXCEPT ![o].expires_at = "past"]
    /\ UNCHANGED <<allJobVars, ingestVars, inferVars, sweep>>

\* expired_outputs = db.query(Output).filter(...).all()
SweepStart ==
    /\ sweep.pc = "idle"
    /\ sweep' = [pc |-> "running", selected |-> Expired, deleted |-> {}]
    /\ UNCHANGED <<allJobVars, ingestVars, inferVars, output_rows>>

\* What delete_from_s3 does to the file: delete_object removes it and True
\* is returned; on a ClientError the file stays and False is returned.
DeleteFromS3Results == {TRUE, FALSE}

\* asyncio.run(delete_from_s3(output.file_url)); db.delete(output): the
\* value delete_from_s3 returns is not looked at
SweepDelete(o) ==
    /\ sweep.pc = "running"
    /\ o \in sweep.selected \ sweep.deleted
    /\ \E removed \in DeleteFromS3Results :
          output_rows' =
              [output_rows EXCEPT ![o].artifact = @ /\ ~removed]
    /\ sweep' = [sweep EXCEPT !.deleted = @ \cup {o}]
    /\ UNCHANGED <<allJobVars, ingestVars, inferVars>>

\* delete_from_s3 raises something else than ClientError: the task ends in
\* its finally clause, db.close() drops the deletions not yet committed
SweepRaise(o) ==
    /\ sweep.pc = "running"
    /\ o \in sweep.selected \ sweep.deleted
    /\ sweep' = NoSweep
    /\ UNCHANGED <<allJobVars, ingestVars, inferVars, output_rows>>

\* db.commit() after the loop
SweepCommit ==
    /\ sweep.pc = "running"
    /\ sweep.selected = sweep.deleted
    /\ output_rows' =
          [o \in DOMAIN output_rows |->
              IF o \in sweep.deleted
              THEN [output_rows[o] EXCEPT !.record = FALSE]
              ELSE output_rows[o]]
    /\ sweep' = NoSweep
    /\ UNCHANGED <<allJobVars, ingestVars, inferVars>>

ReaperStep ==
    \/ \E o \in DOMAIN output_rows : ClockPasses(o)
    \/ SweepStart
    \/ \E o \in DOMAIN output_rows : SweepDelete(o)
    \/ \E o \in DOMAIN output_rows : SweepRaise(o)
    \/ SweepCommit

\* The periodic Reaper over a table of Outputs.
SpecReaper == InitReaper /\ [][ReaperStep]_vars

\* ------------------------------------------------------------------ spec
\* The steps of the try block of a render task.
RenderRun(i) ==
    \/ RenderDocumentStart(i)
    \/ RenderDocumentLoadJob(i)
    \/ RenderDocumentItemDone(i)
    \/ RenderDocumentIncrement(i)
    \/ RenderDocumentCheck(i)
    \/ RenderCombinedStart(i)
    \/ RenderCombinedLoadJob(i)
    \/ RenderCombinedItemDone(i)
    \/ RenderCombinedOutput(i)

\* The except block of a render task.
RenderFail(i) ==
    \/ RenderDocumentFailEarly(i)
    \/ RenderDocumentFailLate(i)
    \/ RenderCombinedFailEarly(i)
    \/ RenderCombinedFailLate(i)

RenderStep(i) == RenderRun(i) \/ RenderFail(i)

ProcessJobStep ==
    \/ ProcessJobStart
    \/ ProcessJobCreateItems
    \/ ProcessJobDispatch

\* process_job and the render tasks.
RenderWorkerStep ==
    \/ ProcessJobStep
    \/ \E i \in DOMAIN tasks : RenderStep(i)

WorkerStep ==
    \/ ProcessJobStep
    \/ \E i \in DOMAIN tasks : RenderStep(i)
    \/ CreateBundle

\* The tasks of a run in which no render attempt raises.
CleanStep ==
    \/ ProcessJobStep
    \/ \E i \in DOMAIN tasks : RenderRun(i)
    \/ CreateBundle

\* A job whose process_job message is delivered once.
Next ==
    \/ WorkerStep
    \/ \E i \in DOMAIN tasks : Redeliver(i)
    \/ CancelJob
    \/ RetryFailedItems

Spec == Init /\ [][Next]_vars

\* The tasks alone: no redelivery and no API call during the run.
SpecWorkers == Init /\ [][WorkerStep]_vars

\* The tasks and the API calls: no redelivery during the run.
SpecApi == Init /\ [][WorkerStep \/ CancelJob \/ RetryFailedItems]_vars

\* process_job, the render tasks and retry_failed_items requests. The
\* create_bundle messages stay in their queue: create_bundle reads the
\* items and writes Output records only.
SpecRetryAll == Init /\ [][RenderWorkerStep \/ RetryFailedItems]_vars

\* Redelivery of process_job, in a run in which no render attempt raises.
SpecDispatch == Init /\ [][CleanStep \/ RedeliverProcessJob]_vars

\* The tasks and redelivery: no API call during the run.
SpecRedelivery ==
    Init /\ [][WorkerStep \/ \E i \in DOMAIN tasks : Redeliver(i)]_vars

\* The workers keep consuming the queues: a task that can take a step
\* eventually takes it.
FairWorkers == SpecWorkers /\ WF_vars(WorkerStep)

InitInfer ==
    /\ NoJob
    /\ NoIngest
    /\ ReaperIdle
    /\ column \in Columns
    /\ col_type = "none"

InferColumnType ==
    /\ col_type = "none"
    /\ col_type' = infer_column_type(column)
    /\ UNCHANGED <<allJobVars, ingestVars, reaperVars, column>>

\* Type inference over the columns.
SpecInfer == InitInfer /\ [][InferColumnType]_vars

\* Nothing uploaded, no job asked for.
InitIngest == NoJob /\ NoIngest /\ ReaperIdle /\ InferIdle

\* Upload, reprocess and the parse task of one DataSource.
SpecIngest == InitIngest /\ [][IngestStep]_vars

\* The ingest worker consumes its queue.
FairIngest == SpecIngest /\ WF_vars(ParseStep)

\* The DataSource and create_job requests on it, with process_job.
SpecCreateJob ==
    InitIngest
        /\ [][IngestStep \/ CreateJob \/ CreateJobReject
                \/ ProcessJobStep]_vars

TypeOK ==
    /\ generation_mode \in GenerationMode
    /\ status \in JobStatus
    /\ error_message \in {"none"} \cup RenderErrors
    /\ cancel_pc \in {"idle", "accepted"}
    /\ \A k \in ItemIds : items[k].status \in JobItemStatus
    /\ Len(tasks) \in {0, Len(items)}

\* ================================================================ claims
TerminalStatus == {"COMPLETED", "FAILED", "CANCELLED"}

\* The items a render task was enqueued for.
Enqueued == {k \in DOMAIN tasks : tasks[k].pc # "unsent"}

\* The items whose render task is at position p.
TasksAt(p) == {k \in DOMAIN tasks : tasks[k].pc = p}

\* The job has items, every one finished, and no further attempt is
\* scheduled.
AllItemsFinished ==
    /\ pj = "done"
    /\ Len(tasks) >= 1
    /\ \A k \in DOMAIN tasks :
          /\ tasks[k].pc \in {"done", "dead"}
          /\ items[k].status \in {"COMPLETED", "FAILED"}

\* C1: in every reachable state of a job,
\* completed_items + failed_items <= total_items.
C1_CountersWithinTotal == completed_items + failed_items <= total_items

\* C2: in a per_row job (no retry-all, no redelivery) failed_items counts
\* every item that failed at most once, however many of its attempts raised:
\* it never exceeds the number of items with a failed attempt.
C2_FailedOncePerItem ==
    generation_mode = "per_row" =>
        failed_items <= Cardinality({k \in ItemIds : items[k].retry_count >= 1})

\* C3: the render tasks of one per_row job enqueue create_bundle at most
\* once, whatever their interleaving.
C3_BundleTriggeredOnce == generation_mode = "per_row" => bundleEnq <= 1

\* C4: whenever the job's status is terminal, every JobItem is COMPLETED or
\* FAILED and no attempt of its render task is still scheduled or running.
C4_TerminalMeansItemsFinished ==
    status \in TerminalStatus =>
        \A k \in ItemIds :
            /\ items[k].status \in {"COMPLETED", "FAILED"}
            /\ k \in DOMAIN tasks => tasks[k].pc \in {"done", "dead"}

\* C5: once every item of a dispatched per_row job has finished, the job
\* eventually becomes COMPLETED.
C5_FinishedLeadsToCompleted ==
    (generation_mode = "per_row" /\ AllItemsFinished) ~> (status = "COMPLETED")

\* C6: completed_items is the number of COMPLETED items whose task has done
\* its increment: with k successful tasks and none between its item commit
\* and its increment, completed_items = k.
C6_CompletedCountsEverySuccess ==
    generation_mode = "per_row" =>
        completed_items =
            Cardinality(CompletedIds) - Cardinality(TasksAt("itemdone"))

\* Two tasks have both incremented and neither has yet re-checked completion.
C6_Witness ==
    /\ generation_mode = "per_row"
    /\ Len(tasks) >= 2
    /\ tasks[1].pc = "incdone"
    /\ tasks[2].pc = "incdone"
    /\ completed_items = 2

\* C7: every failure adds exactly one to failed_items, also when failures
\* of distinct items are concurrent: failed_items is the number of failed
\* attempts (the tasks alone run: nothing resets the counter).
C7_NoLostFailure == failed_items = SumRetryCount(Len(items))

\* C8: a step of a re-executed render task whose first execution had
\* finished, other than a failure, leaves completed_items, failed_items,
\* the Output records and the number of create_bundle triggers unchanged.
C8_RerunIdempotent ==
    [][\A k \in DOMAIN tasks :
          (/\ tasks[k].rerun
           /\ tasks'[k].pc # tasks[k].pc
           /\ items'[k].retry_count = items[k].retry_count)
          => /\ completed_items' = completed_items
             /\ failed_items' = failed_items
             /\ bundleEnq' = bundleEnq
             /\ outputs' = outputs]_vars

\* C9: no step moves the job out of COMPLETED or FAILED, and none moves it
\* from PROCESSING back to PENDING.
C9_StatusMonotonic ==
    [][/\ status \in {"COMPLETED", "FAILED"} => status' = status
       /\ status = "PROCESSING" => status' # "PENDING"]_vars

\* C10: once the job is CANCELLED no step changes its status.
C10_CancelledIsTerminal ==
    [][status = "CANCELLED" => status' = "CANCELLED"]_vars

\* C11: the job becomes CANCELLED only from PENDING or PROCESSING, and the
\* step that cancels it changes the job's status only: counters, items and
\* enqueued tasks are as before. (A rejected request changes nothing:
\* CancelJobReject.)
C11_CancelOnlyWhenActive ==
    [][(status' = "CANCELLED" /\ status # "CANCELLED")
          => /\ status \in {"PENDING", "PROCESSING"}
             /\ UNCHANGED <<total_items, completed_items, failed_items,
                            items, tasks>>]_vars

\* The JobItem state machine: PENDING -> PROCESSING -> {COMPLETED, FAILED,
\* SKIPPED}.
ItemTransitions ==
    {<<"PENDING", "PROCESSING">>, <<"PROCESSING", "COMPLETED">>,
     <<"PROCESSING", "FAILED">>, <<"PROCESSING", "SKIPPED">>}

\* C12: with the render tasks alone (no retry-all reset), every change of a
\* JobItem's status is a transition of the item state machine; a FAILED or
\* COMPLETED item is never put back to PROCESSING.
C12_ItemStateMachine ==
    [][\A k \in DOMAIN items :
          items'[k].status # items[k].status
          => <<items[k].status, items'[k].status>> \in ItemTransitions]_vars

\* C13: once process_job has dispatched, the job has total_items JobItems
\* and as many render tasks; per_row: one item per row, in row order, each
\* with its row's index, and total_items is the row count; per_datasource:
\* one item, one task, total_items = 1.
C13_DispatchMatchesItems ==
    pj = "done" =>
        /\ Len(items) = total_items
        /\ Cardinality(Enqueued) = total_items
        /\ generation_mode = "per_row" =>
              /\ total_items = nRows
              /\ \A k \in ItemIds : items[k].row_index = k - 1
        /\ generation_mode = "per_datasource" => total_items = 1

\* A per_row job over several rows has been dispatched.
C13_Witness ==
    /\ pj = "done"
    /\ generation_mode = "per_row"
    /\ nRows >= 2
    /\ Len(tasks) = nRows

\* C14: however often process_job is delivered, the job never has more
\* JobItems, and never more render tasks enqueued, than one execution
\* creates; a dispatched job has exactly total_items items.
C14_ProcessJobIdempotent ==
    /\ Len(items) <= DispatchTotal
    /\ Cardinality(Enqueued) <= DispatchTotal
    /\ pj = "done" => Len(items) = total_items

C16_RetriesExhausted ==
    \A k \in DOMAIN tasks :
        /\ tasks[k].countdown = RetryDelay * tasks[k].retries
        /\ tasks[k].pc = "dead" =>
              /\ tasks[k].retries = MaxRetries
              /\ items[k].status = "FAILED"
              /\ items[k].error_message # "none"
              /\ items[k].retry_count = MaxRetries

\* C17: an attempt that fails with a template syntax or undefined-variable
\* error is the task's last: the item is FAILED with that error and no
\* further attempt is scheduled.
C17_TemplateErrorNotRetried ==
    [][\A k \in DOMAIN tasks :
          (/\ items'[k].retry_count > items[k].retry_count
           /\ items'[k].error_message = "template")
          => /\ items'[k].status = "FAILED"
             /\ tasks'[k].pc = "dead"]_vars

\* C18: in a per_datasource job, while the item is FAILED the job is FAILED
\* and carries an error text (so it is not COMPLETED).
C18_CombinedFailureFailsJob ==
    generation_mode = "per_datasource" =>
        \A k \in ItemIds :
            items[k].status = "FAILED"
            => /\ status = "FAILED"
               /\ error_message # "none"

\* C19: in a per_row job a step in which an attempt on item i fails changes,
\* besides item i and its task, the job's failed_items only: every other
\* item and its task, the job's status, completed_items, total_items and
\* the bundle queue and outputs are as before.
C19_FailureIsLocal ==
    [][\A i \in DOMAIN items :
          (/\ generation_mode = "per_row"
           /\ items'[i].retry_count > items[i].retry_count)
          => /\ \A k \in DOMAIN items \ {i} :
                   /\ items'[k] = items[k]
                   /\ tasks'[k] = tasks[k]
             /\ status' = status
             /\ UNCHANGED <<completed_items, total_items, bundleVars>>]_vars

\* An item's task has run out of retries and left it FAILED; its sibling's
\* task has run to completion and the job is not FAILED.
C19_Witness ==
    /\ generation_mode = "per_row"
    /\ \E i, k \in DOMAIN tasks :
          /\ items[i].status = "FAILED"
          /\ tasks[i].pc = "dead"
          /\ items[k].status = "COMPLETED"
          /\ tasks[k].pc = "done"
    /\ status # "FAILED"

\* The Outputs of type bundle recorded for the job.
BundleOutputs == {o \in DOMAIN outputs : outputs[o].type = "bundle"}

\* C20: when every render task of a per_row job over nRows >= 1 rows has
\* succeeded at its first attempt and every triggered create_bundle has run,
\* the job is COMPLETED with total_items = completed_items = nRows,
\* failed_items = 0 and exactly one bundle Output.
C20_AllSucceedOneBundle ==
    (/\ generation_mode = "per_row"
     /\ nRows >= 1
     /\ AllItemsFinished
     /\ \A k \in ItemIds : items[k].retry_count = 0
     /\ bundleRun = bundleEnq)
    => /\ status = "COMPLETED"
       /\ total_items = nRows
       /\ completed_items = nRows
       /\ failed_items = 0
       /\ Cardinality(BundleOutputs) = 1

\* C21: a create_bundle run with no COMPLETED item records nothing; otherwise
\* it records one Output of type bundle whose archive has exactly one entry
\* per COMPLETED item, named by the digits of row index + 1 padded to four,
\* the entries in increasing row index (so no two share a name).
C21_BundleContents ==
    [][bundleRun' # bundleRun
          => IF CompletedIds = {}
             THEN outputs' = outputs
             ELSE /\ Len(outputs') = Len(outputs) + 1
                  /\ SubSeq(outputs', 1, Len(outputs)) = outputs
                  /\ LET e == outputs'[Len(outputs')].entries
                     IN /\ outputs'[Len(outputs')].type = "bundle"
                        /\ {e[j].item : j \in DOMAIN e} = CompletedIds
                        /\ Len(e) = Cardinality(CompletedIds)
                        /\ \A j \in DOMAIN e :
                              e[j].name =
                                 ZeroPad(Digits(items[e[j].item].row_index + 1), 4)
                        /\ \A a, b \in DOMAIN e :
                              a < b => items[e[a].item].row_index
                                          < items[e[b].item].row_index]_vars

\* C22: a sweep that completes leaves, of every Output it selected as
\* expired, neither the record nor the file, and leaves every other Output
\* as it was (so a second sweep right after it selects none of them); a
\* sweep that fails partway removes no record, so what it selected is
\* selected again.
C22_SweepRemovesExpired ==
    [][/\ SweepCommit
          => \A o \in DOMAIN output_rows :
                IF o \in sweep.selected
                THEN ~output_rows'[o].record /\ ~output_rows'[o].artifact
                ELSE output_rows'[o] = output_rows[o]
       /\ (\E o \in DOMAIN output_rows : SweepRaise(o))
          => \A o \in sweep.selected : output_rows'[o].record]_vars

\* C23: a DataSource that reprocess_datasource has put to PENDING leaves
\* PENDING: inference runs again and it reaches READY or FAILED.
C23_ReprocessLeadsToInference ==
    (datasource.status = "PENDING")
        ~> (datasource.status \in {"READY", "FAILED"})

\* C24: a step that fails the DataSource on a parse error records the
\* error text, persists no row, and schedules no further attempt.
C24_ParseErrorIsFatal ==
    [][(/\ datasource'.status = "FAILED"
        /\ datasource.status # "FAILED"
        /\ datasource'.error_message = "parse")
          => /\ datasource_rows' = datasource_rows
             /\ parse'.pc # "queued"]_vars

\* C25: while no Job exists and the DataSource is not READY, no step
\* creates the Job, enqueues process_job or creates a JobItem: every
\* create_job request is rejected.
C25_CreateJobNeedsReady ==
    [][(pj = "uncreated" /\ datasource.status # "READY")
          => /\ pj' = "uncreated"
             /\ items' = << >>
             /\ tasks' = << >>
             /\ UNCHANGED jobVars]_vars

\* The parse of the DataSource has failed and no job was created on it.
C25_Witness ==
    /\ pj = "uncreated"
    /\ datasource.status = "FAILED"
    /\ parse.pc = "dead"

\* C26: however often inference has run on the file, a READY DataSource
\* has exactly the file's rows, each row index 0..n-1 once and in order,
\* and row_count = number of stored rows = schema.total_rows.
C26_InferenceIdempotent ==
    datasource.status = "READY" =>
        /\ Len(datasource_rows) = file.rows
        /\ \A k \in DOMAIN datasource_rows :
              /\ datasource_rows[k].row_index = k - 1
              /\ datasource_rows[k].row_data = k
        /\ datasource.row_count = Len(datasource_rows)
        /\ datasource.schema_json.inferred
        /\ datasource.schema_json.total_rows = datasource.row_count

\* The inline inference of the upload and two parse_datasource runs after
\* it have succeeded on a file with rows.
C26_Witness ==
    /\ datasource.status = "READY"
    /\ file.rows >= 2
    /\ parse.sent = 2
    /\ parse.pc = "done"

\* C27: an object column with a non-null value is classified date exactly
\* when the values among its first 10 non-null ones that parse as dates are
\* at least 80% of that sample, and string otherwise.
C27_DateThreshold ==
    (/\ col_type # "none"
     /\ column.dtype = "object"
     /\ Len(DropNa(column.values)) >= 1)
    => LET sample == HeadOf(DropNa(column.values), 10)
       IN /\ col_type \in {"date", "string"}
          /\ col_type = "date"
                <=> DateCount(sample) * 100 >= 80 * Len(sample)

\* C28: when every render task of a dispatched job has ended (none
\* running, none queued), completed_items is the number of COMPLETED
\* JobItems.
C28_CompletedMatchesItems ==
    (/\ pj = "done"
     /\ \A k \in DOMAIN tasks : tasks[k].pc \in {"done", "dead"})
    => completed_items = Cardinality(CompletedIds)

\* C29: a per_row job dispatched over a data source without rows reaches a
\* terminal status.
C29_EmptyJobTerminates ==
    (generation_mode = "per_row" /\ nRows = 0 /\ pj = "done")
        ~> (status \in TerminalStatus)

\* C30: at the step that sends create_bundle no JobItem is PENDING or
\* PROCESSING and no render task is queued for a retry.
C30_BundleAfterLastItem ==
    [][bundleEnq' > bundleEnq
          => \A k \in DOMAIN tasks :
                /\ items'[k].status \notin {"PENDING", "PROCESSING"}
                /\ tasks'[k].pc \notin {"queued", "start", "loaded"}]_vars
====
